---- MODULE Spec2Model ----
(***************************************************************************)
(* State-machine model of the two simulation engines of the repository:    *)
(*   - the shooter of scripts/generate_contribution_gif.py (generate_gif   *)
(*     and the helpers it calls), one action per loop iteration (tick);    *)
(*   - the generalized Langton's ant of                                    *)
(*     scripts/generate_contribution_life_gif.py (step_ant).               *)
(* Rendering, GIF encoding, HTTP fetching and argument parsing are not     *)
(* modelled: the parsed arguments and the fetched grid are the inputs,     *)
(* drawn from bounded families; of the frames only their number is kept.   *)
(***************************************************************************)
EXTENDS Integers, Sequences, FiniteSets, TLC

VARIABLES
    pc,                 \* shooter control point: "main", "fetch", "start", "loop",
                        \* "done", "error", "rejected", "idle"
    contribution_grid,  \* [<<x, y>> -> level], the fetched grid (never mutated by the shooter)
    max_ticks,          \* --iterations of the shooter
    render_every,       \* --render-every
    final_hold_frames,  \* --final-hold-frames
    frames,             \* len(frames) of the shooter
    enemies,            \* dict (ex, ey) -> hp
    formation_x,
    formation_y,
    enemy_direction,
    ship_x,
    current_target_x,
    bullets,            \* list of Bullet; "born" is a history field (tick of firing)
    cooldown,
    enemy_move_interval,
    tick,
    interval_args,      \* arguments of a call of compute_enemy_move_interval on its own
    random_picks,       \* history: how often random.random() < 0.45 sent the ship to a random column
    ant_pc,             \* automaton control point: "main", "fetch", "start", "loop",
                        \* "done", "rejected", "idle", "step_ant"
    current,            \* the automaton's grid, mutated in place
    ant_x,
    ant_y,
    direction,
    iterations,         \* --iterations of the automaton
    steps,              \* iterations of the automaton loop executed so far
    ant_frames          \* len(frames) of the automaton

shooter_vars ==
    <<pc, contribution_grid, max_ticks, render_every, final_hold_frames, frames,
      enemies, formation_x, formation_y,
      enemy_direction, ship_x, current_target_x, bullets, cooldown,
      enemy_move_interval, tick, random_picks, interval_args>>

ant_vars ==
    <<ant_pc, current, ant_x, ant_y, direction, iterations, steps, ant_frames>>

vars ==
    <<pc, contribution_grid, max_ticks, render_every, final_hold_frames, frames,
      enemies, formation_x, formation_y,
      enemy_direction, ship_x, current_target_x, bullets, cooldown,
      enemy_move_interval, tick, random_picks, interval_args,
      ant_pc, current, ant_x, ant_y, direction, iterations, steps, ant_frames>>

-----------------------------------------------------------------------------
(* Bounds of the model: the inputs that are enumerated.                    *)

\* widest grid of the small input families
MaxWidth == 4

\* tick budget given to the small grids
MaxTicks == 150

\* a short tick budget, so that runs also stop with enemies left
ShortTicks == 5

\* tick budget given to the grids that start in chaos mode
ChaosTicks == 8

\* how many of a run's random.random() draws may fall below 0.45
MaxRandomPicks == 1

\* widest grid given to the automaton
AntMaxWidth == 3

\* largest --iterations given to the automaton
AntMaxIterations == 40

\* the run on a wide grid: its width, how many columns at either end hold
\* enemies, and its tick budget
WideWidth == 320

WideColumns == 15

WideTicks == 2600

\* largest arguments given to compute_enemy_move_interval on its own
IntervalMaxHp == 300

IntervalMaxWidth == 2

IntervalMaxDescents == 3

\* width of the grid without a positive cell that both engines are given
EmptyGridWidth == 7

\* most rows and most columns of the grids step_ant is applied to
StepAntMaxSide == 3

\* how often step_ant is applied to one grid
StepAntCalls == 3

-----------------------------------------------------------------------------
(* Program constants.                                                      *)

GridHeight == 7

MaxLevel == 4

bullet_speed == 2

fire_cooldown_ticks == 0

ChaosThreshold == 220

ChaosReevalTicks == 8

NearestPool == 12

InitialFormationX == 1

InitialFormationY == 2

MinMoveInterval == 28

MaxMoveInterval == 180

PaletteSize == 5

-----------------------------------------------------------------------------
(* Helpers.                                                                *)

Abs(n) ==
    IF n < 0 THEN -n ELSE n

Min2(a, b) ==
    IF a < b THEN a ELSE b

Max2(a, b) ==
    IF a > b THEN a ELSE b

EmptyDict ==
    [c \in {} |-> 0]

Cells(w) ==
    (0 .. w - 1) \X (0 .. GridHeight - 1)

\* len(contribution_grid[0])
GridWidth(g) ==
    Cardinality(DOMAIN g) \div GridHeight

\* len(grid) and len(grid[0]) of the automaton's grid
GridRows(g) ==
    Cardinality({c[2] : c \in DOMAIN g})

GridCols(g) ==
    Cardinality({c[1] : c \in DOMAIN g})

\* ceil(a / b) for a >= 0, b > 0
CeilDiv(a, b) ==
    (a + b - 1) \div b

\* sum(en.values()), added up value by value: each distinct value times the
\* number of keys that hold it
RECURSIVE SumOver(_, _)
SumOver(en, vals) ==
    IF vals = {} THEN 0
    ELSE LET v == CHOOSE z \in vals : TRUE
         IN  v * Cardinality({c \in DOMAIN en : en[c] = v}) + SumOver(en, vals \ {v})

SumValues(en) ==
    SumOver(en, {en[c] : c \in DOMAIN en})

-----------------------------------------------------------------------------
(* Geometry fixed by generate_gif.                                         *)

width ==
    GridWidth(contribution_grid) + 2

enemy_height ==
    GridHeight

height ==
    enemy_height + 30

ship_y ==
    height - 2

max_descents_before_fail ==
    Max2(3, ship_y - (InitialFormationY + enemy_height) - 2)

-----------------------------------------------------------------------------
(* Pure functions of generate_contribution_gif.py.                         *)

build_enemies(g) ==
    [c \in {d \in DOMAIN g : g[d] > 0} |-> g[c]]

\* faulty variant: the leftmost column is returned as the rightmost too
enemy_bounds_leftmost(en) ==
    LET live == {c \in DOMAIN en : en[c] > 0}
        xs == {c[1] : c \in live}
        ys == {c[2] : c \in live}
    IN  <<CHOOSE x \in xs : \A z \in xs : x <= z,
          CHOOSE x \in xs : \A z \in xs : x <= z,
          CHOOSE y \in ys : \A z \in ys : y <= z,
          CHOOSE y \in ys : \A z \in ys : y >= z>>

\* <<min_x, max_x, min_y, max_y>> over the live enemies (non-empty dict)
enemy_bounds(en) ==
    LET live == {c \in DOMAIN en : en[c] > 0}
        xs == {c[1] : c \in live}
        ys == {c[2] : c \in live}
    IN  <<CHOOSE x \in xs : \A z \in xs : x <= z,
          CHOOSE x \in xs : \A z \in xs : x >= z,
          CHOOSE y \in ys : \A z \in ys : y <= z,
          CHOOSE y \in ys : \A z \in ys : y >= z>>

\* iteration order of the enemies dict: insertion order of build_enemies
\* (rows outermost, columns innermost); deletions keep the order
DictBefore(c, d) ==
    c[2] < d[2] \/ (c[2] = d[2] /\ c[1] < d[1])

\* the key of pick_target_column's max(): (row, -|column - ship_x|, hp)
TargetKey(en, fx, fy, sx, c) ==
    <<fy + c[2], -Abs(fx + c[1] - sx), en[c]>>

\* the candidates whose i-th key component is greatest
KeepGreatest(en, fx, fy, sx, cands, i) ==
    LET ks == {TargetKey(en, fx, fy, sx, c)[i] : c \in cands}
        top == CHOOSE k \in ks : \A z \in ks : k >= z
    IN  {c \in cands : TargetKey(en, fx, fy, sx, c)[i] = top}

\* faulty variant: the nearest enemy is preferred to the lowest
pick_target_column_nearest(en, fx, fy, sx) ==
    LET live == {c \in DOMAIN en : en[c] > 0}
        byDist == KeepGreatest(en, fx, fy, sx, live, 2)
        byRow == KeepGreatest(en, fx, fy, sx, byDist, 1)
        byHp == KeepGreatest(en, fx, fy, sx, byRow, 3)
        best == CHOOSE c \in byHp : \A d \in byHp \ {c} : DictBefore(c, d)
    IN  fx + best[1]

\* max() over tuple keys is lexicographic and returns the first maximal
\* candidate in iteration order
pick_target_column(en, fx, fy, sx) ==
    LET live == {c \in DOMAIN en : en[c] > 0}
        byRow == KeepGreatest(en, fx, fy, sx, live, 1)
        byDist == KeepGreatest(en, fx, fy, sx, byRow, 2)
        byHp == KeepGreatest(en, fx, fy, sx, byDist, 3)
        best == CHOOSE c \in byHp : \A d \in byHp \ {c} : DictBefore(c, d)
    IN  fx + best[1]

\* faulty variant: the ship jumps to the target column
move_ship_jump(sx, tx, w) ==
    Max2(0, Min2(w - 1, tx))

move_ship_towards(sx, tx, w) ==
    IF tx > sx THEN Min2(w - 1, sx + 1)
    ELSE IF tx < sx THEN Max2(0, sx - 1)
    ELSE sx

\* faulty variant: the entry is kept when its hit points reach 0
apply_hit_keep(en, rel) ==
    [en EXCEPT ![rel] = en[rel] - 1]

\* lines 151-153: one hit on the enemy at rel
apply_hit(en, rel) ==
    IF en[rel] - 1 <= 0
    THEN [c \in DOMAIN en \ {rel} |-> en[c]]
    ELSE [en EXCEPT ![rel] = en[rel] - 1]

\* faulty variant: an enemy with one hit point left is not seen
enemy_at_strong(en, rel) ==
    rel \in DOMAIN en /\ en[rel] > 1

\* line 149: the test for a live enemy in the bullet's cell
enemy_at(en, rel) ==
    rel \in DOMAIN en /\ en[rel] > 0

\* faulty variant: a sub-step moves the bullet by the whole speed
bullet_step_fast(b) ==
    [b EXCEPT !.y = b.y - bullet_speed]

\* line 144: one sub-step up
bullet_step(b) ==
    [b EXCEPT !.y = b.y - 1]

\* the inner loop (lines 143-155) for one bullet with n sub-steps left
RECURSIVE advance_bullet(_, _, _, _, _)
advance_bullet(b, en, fx, fy, n) ==
    IF n = 0 THEN [destroyed |-> FALSE, bullet |-> b, enemies |-> en]
    ELSE LET moved == bullet_step(b)
             rel == <<moved.x - fx, moved.y - fy>>
         IN  IF moved.y < 0
             THEN [destroyed |-> TRUE, bullet |-> moved, enemies |-> en]
             ELSE IF enemy_at(en, rel)
             THEN [destroyed |-> TRUE, bullet |-> moved, enemies |-> apply_hit(en, rel)]
             ELSE advance_bullet(moved, en, fx, fy, n - 1)

\* the outer loop (lines 141-158): bs still to process, next the survivors so far
RECURSIVE bullet_loop(_, _, _, _, _, _)
bullet_loop(bs, next, en, fx, fy, speed) ==
    IF bs = <<>> THEN [bullets |-> next, enemies |-> en]
    ELSE LET r == advance_bullet(Head(bs), en, fx, fy, speed)
         IN  bullet_loop(Tail(bs),
                         IF r.destroyed THEN next ELSE Append(next, r.bullet),
                         r.enemies, fx, fy, speed)

\* faulty variant: one sub-step too few per tick
move_bullets_short(bs, en, fx, fy, speed) ==
    bullet_loop(bs, <<>>, en, fx, fy, speed - 1)

move_bullets_and_apply_hits(bs, en, fx, fy, speed) ==
    bullet_loop(bs, <<>>, en, fx, fy, speed)

\* faulty variant: the right wall is tested one column too far
step_enemy_formation_wide(en, w, fx, fy, dir) ==
    IF DOMAIN en = {} THEN <<fx, fy, dir>>
    ELSE LET bounds == enemy_bounds(en)
         IN  IF fx + bounds[2] + dir > w \/ fx + bounds[1] + dir < 0
             THEN <<fx, fy + 1, -dir>>
             ELSE <<fx + dir, fy, dir>>

\* <<formation_x, formation_y, direction>> after one move event
step_enemy_formation(en, w, fx, fy, dir) ==
    IF DOMAIN en = {} THEN <<fx, fy, dir>>
    ELSE LET bounds == enemy_bounds(en)
         IN  IF fx + bounds[2] + dir >= w \/ fx + bounds[1] + dir < 0
             THEN <<fx, fy + 1, -dir>>
             ELSE <<fx + dir, fy, dir>>

\* faulty variant: the estimate is rounded up
estimated_ticks_rounded_up(total_hp, w) ==
    (13 * total_hp + 60 * w + 9) \div 10

\* int(total_hp * 1.3 + width * 6): the truncation of a non-negative float
estimated_ticks_to_clear(total_hp, w) ==
    (13 * total_hp + 60 * w) \div 10

\* faulty variant: the interval is not raised to the least interval
compute_enemy_move_interval_unraised(total_hp, w, max_descents) ==
    LET raw == CeilDiv(estimated_ticks_to_clear(total_hp, w), Max2(1, w * max_descents))
    IN  Min2(MaxMoveInterval, raw)

compute_enemy_move_interval(total_hp, w, max_descents) ==
    LET raw == CeilDiv(estimated_ticks_to_clear(total_hp, w), Max2(1, w * max_descents))
    IN  Max2(MinMoveInterval, Min2(MaxMoveInterval, raw))

\* faulty variant: an enemy in a neighbouring column counts as ahead
has_enemy_near(en, fx, fy, sx) ==
    \E c \in DOMAIN en : en[c] > 0 /\ Abs(fx + c[1] - sx) <= 1 /\ fy + c[2] < ship_y

\* lines 349-353
has_enemy_ahead(en, fx, fy, sx) ==
    \E c \in DOMAIN en : en[c] > 0 /\ fx + c[1] = sx /\ fy + c[2] < ship_y

\* lines 328-330
enemy_columns(en, fx) ==
    {fx + c[1] : c \in {d \in DOMAIN en : en[d] > 0}}

\* lines 333-335: the first NearestPool columns of the stable sort of the
\* ascending columns by distance to the ship
nearest_columns(cols, sx) ==
    {c \in cols :
        Cardinality({d \in cols :
            \/ Abs(d - sx) < Abs(c - sx)
            \/ Abs(d - sx) = Abs(c - sx) /\ d < c}) < NearestPool}

chaos_mode(en) ==
    Cardinality(DOMAIN en) > ChaosThreshold

\* faulty variant: the target is chosen again in every tick
reevaluate_always(t, sx, target) ==
    TRUE

\* line 327: in chaos mode the target is chosen again in tick t
reevaluate_target(t, sx, target) ==
    t % ChaosReevalTicks = 0 \/ sx = target

\* faulty variant: the budget is tested off by one
loop_condition_late(en, t, budget) ==
    DOMAIN en # {} /\ t <= budget

\* line 320: the loop condition
loop_condition(en, t, budget) ==
    DOMAIN en # {} /\ t < budget

\* faulty variant: the ship starts in the leftmost column
initial_ship_x_left(w) ==
    0

\* line 283
initial_ship_x(w) ==
    w \div 2

\* the outcomes of the targeting step of a tick (lines 326-344): the new
\* current_target_x, and whether random.random() < 0.45 chose it; the two
\* random draws of chaos mode are the nondeterminism of the set, and picks
\* is the number of draws below 0.45 so far
target_choices(en, fx, fy, sx, target, t, picks) ==
    IF chaos_mode(en)
    THEN IF reevaluate_target(t, sx, target)
         THEN IF enemy_columns(en, fx) # {}
              THEN {[target |-> pick_target_column(en, fx, fy, sx), random |-> FALSE]}
                   \cup (IF picks < MaxRandomPicks
                         THEN {[target |-> c, random |-> TRUE] :
                                  c \in nearest_columns(enemy_columns(en, fx), sx)}
                         ELSE {})
              ELSE {[target |-> target, random |-> FALSE]}
         ELSE {[target |-> target, random |-> FALSE]}
    ELSE {[target |-> pick_target_column(en, fx, fy, sx), random |-> FALSE]}

-----------------------------------------------------------------------------
(* Inputs of the shooter.                                                  *)

\* grids with at most one positive cell (the all-zero grid included)
SingleGrids(w) ==
    {[c \in Cells(w) |-> IF c = c1 THEN l1 ELSE 0] :
        c1 \in Cells(w), l1 \in 0 .. MaxLevel}

\* grids whose positive cells lie in the top or in the bottom row, each of
\* level 1 or MaxLevel
RowGrids(w) ==
    {[c \in Cells(w) |-> IF c[2] = y THEN lv[c[1]] ELSE 0] :
        y \in {0, GridHeight - 1}, lv \in [0 .. w - 1 -> {0, 1, MaxLevel}]}

\* grids of full and empty columns, the full ones of one level
ColumnGrids(w) ==
    {[c \in Cells(w) |-> IF full[c[1]] THEN b ELSE 0] :
        full \in [0 .. w - 1 -> BOOLEAN], b \in 1 .. MaxLevel}

SmallGrids ==
    UNION {SingleGrids(w) \cup RowGrids(w) \cup ColumnGrids(w) : w \in 1 .. MaxWidth}

\* the narrowest grid holding more than ChaosThreshold enemies
ChaosMinWidth ==
    (ChaosThreshold \div GridHeight) + 1

\* level-1 grids of that width with ChaosThreshold + 1 enemies (the first
\* cells of column 0 empty) and with every cell an enemy
ChaosGrids ==
    {[c \in Cells(ChaosMinWidth) |-> IF c[1] = 0 /\ c[2] < k THEN 0 ELSE 1] :
        k \in {0, ChaosMinWidth * GridHeight - (ChaosThreshold + 1)}}

\* a year without contributions: every cell at level 0
EmptyGrid ==
    [c \in Cells(EmptyGridWidth) |-> 0]

ShooterInputs ==
    {[grid |-> g, max_ticks |-> m] :
        g \in SmallGrids \cup {EmptyGrid}, m \in {ShortTicks, MaxTicks}}
    \cup {[grid |-> g, max_ticks |-> ChaosTicks] : g \in ChaosGrids}

-----------------------------------------------------------------------------
(* The shooter: generate_gif.                                              *)

ShooterIdle ==
    /\ pc = "idle"
    /\ contribution_grid = EmptyDict
    /\ max_ticks = 0
    /\ render_every = 0
    /\ final_hold_frames = 0
    /\ frames = 0
    /\ enemies = EmptyDict
    /\ formation_x = 0
    /\ formation_y = 0
    /\ enemy_direction = 0
    /\ ship_x = 0
    /\ current_target_x = 0
    /\ bullets = <<>>
    /\ cooldown = 0
    /\ enemy_move_interval = 0
    /\ tick = 0
    /\ random_picks = 0
    /\ interval_args = <<>>

AntIdle ==
    /\ ant_pc = "idle"
    /\ current = EmptyDict
    /\ ant_x = 0
    /\ ant_y = 0
    /\ direction = 0
    /\ iterations = 0
    /\ steps = 0
    /\ ant_frames = 0

\* a grid whose first and last WideColumns columns are of level MaxLevel,
\* all others empty
WideGrid ==
    [c \in Cells(WideWidth) |->
        IF c[1] < WideColumns \/ c[1] >= WideWidth - WideColumns THEN MaxLevel ELSE 0]

WideInputs ==
    {[grid |-> WideGrid, max_ticks |-> WideTicks]}

\* faulty variant: a formation without enemies is not noticed
no_enemies_unnoticed(en) ==
    FALSE

\* line 276: "if not enemies"
no_enemies(en) ==
    DOMAIN en = {}

\* faulty variant: a run without hold frames is rejected too
args_rejected_without_hold(its, every, hold) ==
    its < 1 \/ every < 1 \/ hold <= 0

\* lines 434-439: the three tests of main
args_rejected(its, every, hold) ==
    its < 1 \/ every < 1 \/ hold < 0

\* the grids fetch_contribution_grid may return to a run of budget m
GridsFor(m) ==
    {inp.grid : inp \in {i \in ShooterInputs \cup WideInputs : i.max_ticks = m}}

\* the command lines that are tried: the budgets of ShooterInputs and two
\* budgets below 1, the default cadence and a cadence of 0, no hold frames
\* and a negative number of them
ShooterArgs ==
    [iterations : {inp.max_ticks : inp \in ShooterInputs} \cup {-1, 0},
     render_every : {0, 1},
     final_hold_frames : {-1, 0}]

\* the state when main is entered: parse_args has returned (line 433)
Init ==
    /\ \E args \in ShooterArgs :
          /\ max_ticks = args.iterations
          /\ render_every = args.render_every
          /\ final_hold_frames = args.final_hold_frames
    /\ pc = "main"
    /\ contribution_grid = EmptyDict
    /\ frames = 0
    /\ enemies = EmptyDict
    /\ formation_x = 0
    /\ formation_y = 0
    /\ enemy_direction = 0
    /\ ship_x = 0
    /\ current_target_x = 0
    /\ bullets = <<>>
    /\ cooldown = 0
    /\ enemy_move_interval = 0
    /\ tick = 0
    /\ random_picks = 0
    /\ interval_args = <<>>
    /\ AntIdle

\* lines 433-451: main validates the arguments and calls generate_gif
Main ==
    /\ pc = "main"
    /\ pc' = (IF args_rejected(max_ticks, render_every, final_hold_frames)
              THEN "rejected" ELSE "fetch")
    /\ UNCHANGED <<contribution_grid, max_ticks, render_every, final_hold_frames,
                   frames, enemies, formation_x, formation_y, enemy_direction,
                   ship_x, current_target_x, bullets, cooldown,
                   enemy_move_interval, tick, random_picks>>
    /\ UNCHANGED interval_args
    /\ UNCHANGED ant_vars

\* line 274: fetch_contribution_grid returns the grid
Fetch ==
    /\ pc = "fetch"
    /\ pc' = "start"
    /\ contribution_grid' \in GridsFor(max_ticks)
    /\ UNCHANGED <<max_ticks, render_every, final_hold_frames,
                   frames, enemies, formation_x, formation_y, enemy_direction,
                   ship_x, current_target_x, bullets, cooldown,
                   enemy_move_interval, tick, random_picks>>
    /\ UNCHANGED interval_args
    /\ UNCHANGED ant_vars

\* lines 275-318: build the formation and render the first frame, or fail
\* on a grid without enemies
Setup ==
    /\ pc = "start"
    /\ LET built == build_enemies(contribution_grid)
       IN  IF no_enemies(built)
           THEN /\ pc' = "error"
                /\ UNCHANGED <<enemies, formation_x, formation_y, enemy_direction,
                               ship_x, current_target_x, bullets, cooldown,
                               enemy_move_interval, tick, frames>>
           ELSE /\ pc' = "loop"
                /\ enemies' = built
                /\ ship_x' = initial_ship_x(width)
                /\ formation_x' = InitialFormationX
                /\ formation_y' = InitialFormationY
                /\ enemy_direction' = 1
                /\ bullets' = <<>>
                /\ cooldown' = 0
                /\ enemy_move_interval' =
                       compute_enemy_move_interval(SumValues(built), width,
                                                   max_descents_before_fail)
                /\ tick' = 0
                /\ current_target_x' = initial_ship_x(width)
                /\ frames' = 1
    /\ UNCHANGED <<contribution_grid, max_ticks, render_every, final_hold_frames,
                   random_picks>>
    /\ UNCHANGED interval_args
    /\ UNCHANGED ant_vars

\* one iteration of the loop of lines 320-388
Tick ==
    /\ pc = "loop"
    /\ loop_condition(enemies, tick, max_ticks)
    /\ \E choice \in target_choices(enemies, formation_x, formation_y, ship_x,
                                    current_target_x, tick + 1, random_picks) :
          LET t == tick + 1
              sx == move_ship_towards(ship_x, choice.target, width)
              fire == cooldown <= 0
                      /\ has_enemy_ahead(enemies, formation_x, formation_y, sx)
              fired == IF fire
                       THEN Append(bullets, [x |-> sx, y |-> ship_y - 1, born |-> t])
                       ELSE bullets
              cd == IF cooldown <= 0
                    THEN (IF fire THEN fire_cooldown_ticks ELSE cooldown)
                    ELSE cooldown - 1
              r == move_bullets_and_apply_hits(fired, enemies, formation_x,
                                               formation_y, bullet_speed)
              f == IF t % enemy_move_interval = 0 /\ DOMAIN r.enemies # {}
                   THEN step_enemy_formation(r.enemies, width, formation_x,
                                             formation_y, enemy_direction)
                   ELSE <<formation_x, formation_y, enemy_direction>>
          IN  /\ tick' = t
              /\ current_target_x' = choice.target
              /\ random_picks' = (IF choice.random THEN random_picks + 1 ELSE random_picks)
              /\ ship_x' = sx
              /\ cooldown' = cd
              /\ bullets' = r.bullets
              /\ enemies' = r.enemies
              /\ formation_x' = f[1]
              /\ formation_y' = f[2]
              /\ enemy_direction' = f[3]
              /\ frames' = (IF t % render_every = 0 \/ DOMAIN r.enemies = {}
                            THEN frames + 1 ELSE frames)
    /\ UNCHANGED <<pc, contribution_grid, max_ticks, render_every, final_hold_frames,
                   enemy_move_interval>>
    /\ UNCHANGED interval_args
    /\ UNCHANGED ant_vars

\* the loop condition of line 320 fails: lines 390-409
Finish ==
    /\ pc = "loop"
    /\ ~loop_condition(enemies, tick, max_ticks)
    /\ pc' = "done"
    /\ frames' = frames + Max2(0, final_hold_frames)
    /\ UNCHANGED <<contribution_grid, max_ticks, render_every, final_hold_frames,
                   enemies, formation_x, formation_y,
                   enemy_direction, ship_x, current_target_x, bullets, cooldown,
                   enemy_move_interval, tick, random_picks>>
    /\ UNCHANGED interval_args
    /\ UNCHANGED ant_vars

Next ==
    \/ Main
    \/ Fetch
    \/ Setup
    \/ Tick
    \/ Finish

Spec ==
    Init /\ [][Next]_vars

-----------------------------------------------------------------------------
(* The automaton: generate_contribution_life_gif.py.                       *)

\* line 105; level L selects turns[L + 1]
turns ==
    <<1, -1, 1, -1, 1>>

\* faulty variant: the move is not wrapped around the edges
forward_cell_unwrapped(x, y, dir, w, h) ==
    IF dir = 0 THEN <<x, y - 1>>
    ELSE IF dir = 1 THEN <<x + 1, y>>
    ELSE IF dir = 2 THEN <<x, y + 1>>
    ELSE <<x - 1, y>>

\* lines 112-119: the cell ahead, on the torus
forward_cell(x, y, dir, w, h) ==
    IF dir = 0 THEN <<x, (y - 1) % h>>
    ELSE IF dir = 1 THEN <<(x + 1) % w, y>>
    ELSE IF dir = 2 THEN <<x, (y + 1) % h>>
    ELSE <<(x - 1) % w, y>>

\* faulty variant: the level is not cycled back to 0
next_level_unbounded(level) ==
    level + 1

\* line 110: the level written back to the cell the ant leaves
next_level(level) ==
    (level + 1) % PaletteSize

\* faulty variant: the ant turns the same way on every level
turned_clockwise(dir, level) ==
    (dir + 1) % 4

\* lines 107-109: the heading after the turn selected by the level
turned(dir, level) ==
    (dir + turns[level + 1]) % 4

\* the grid after the step and the returned (ant_x, ant_y, direction)
step_ant(grid, x, y, dir) ==
    LET h == GridRows(grid)
        w == GridCols(grid)
        current_level == grid[<<x, y>>]
        d == turned(dir, current_level)
        cell == forward_cell(x, y, d, w, h)
    IN  [grid |-> [grid EXCEPT ![<<x, y>>] = next_level(current_level)],
         ant_x |-> cell[1], ant_y |-> cell[2], direction |-> d]

\* grids of one level, and grids whose level grows by one along each row and
\* each column (all five levels occur next to each other)
AntGrids ==
    {[c \in Cells(w) |-> (b + s * (c[1] + c[2])) % PaletteSize] :
        w \in 1 .. AntMaxWidth, b \in 0 .. MaxLevel, s \in {0, 1}}

\* the values of --iterations that are tried (line 246 rejects those below 1)
AntIterations ==
    {-1, 0, 1, AntMaxIterations}

\* the state when main is entered: parse_args has returned (line 245)
InitAnt ==
    /\ ShooterIdle
    /\ ant_pc = "main"
    /\ iterations \in AntIterations
    /\ current = EmptyDict
    /\ ant_x = 0
    /\ ant_y = 0
    /\ direction = 0
    /\ steps = 0
    /\ ant_frames = 0

\* lines 245-249: main validates the tick budget and calls generate_gif
AntMain ==
    /\ ant_pc = "main"
    /\ ant_pc' = (IF iterations < 1 THEN "rejected" ELSE "fetch")
    /\ UNCHANGED <<current, ant_x, ant_y, direction, iterations, steps, ant_frames>>
    /\ UNCHANGED shooter_vars

\* line 186: fetch_contribution_grid returns the grid
AntFetch ==
    /\ ant_pc = "fetch"
    /\ ant_pc' = "start"
    /\ current' \in AntGrids \cup {EmptyGrid}
    /\ UNCHANGED <<ant_x, ant_y, direction, iterations, steps, ant_frames>>
    /\ UNCHANGED shooter_vars

\* lines 187-199: find_ant_start draws the position, the heading is right and
\* the first frame is rendered
AntStart ==
    /\ ant_pc = "start"
    /\ ant_pc' = "loop"
    /\ ant_x' \in 0 .. GridCols(current) - 1
    /\ ant_y' \in 0 .. GridRows(current) - 1
    /\ direction' = 1
    /\ ant_frames' = ant_frames + 1
    /\ UNCHANGED <<current, iterations, steps>>
    /\ UNCHANGED shooter_vars

\* one iteration of the loop of lines 200-210
AntStep ==
    /\ ant_pc = "loop"
    /\ steps < iterations
    /\ LET r == step_ant(current, ant_x, ant_y, direction)
       IN  /\ current' = r.grid
           /\ ant_x' = r.ant_x
           /\ ant_y' = r.ant_y
           /\ direction' = r.direction
    /\ steps' = steps + 1
    /\ ant_frames' = ant_frames + 1
    /\ UNCHANGED <<ant_pc, iterations>>
    /\ UNCHANGED shooter_vars

\* the loop is over: lines 212-223
AntFinish ==
    /\ ant_pc = "loop"
    /\ steps = iterations
    /\ ant_pc' = "done"
    /\ UNCHANGED <<current, ant_x, ant_y, direction, iterations, steps, ant_frames>>
    /\ UNCHANGED shooter_vars

NextAnt ==
    \/ AntMain
    \/ AntFetch
    \/ AntStart
    \/ AntStep
    \/ AntFinish

SpecAnt ==
    InitAnt /\ [][NextAnt]_vars

-----------------------------------------------------------------------------
(* The shooter on a wide grid with a long budget.                          *)

InitWide ==
    /\ max_ticks = WideTicks
    /\ render_every = 1
    /\ final_hold_frames = 0
    /\ pc = "main"
    /\ contribution_grid = EmptyDict
    /\ frames = 0
    /\ enemies = EmptyDict
    /\ formation_x = 0
    /\ formation_y = 0
    /\ enemy_direction = 0
    /\ ship_x = 0
    /\ current_target_x = 0
    /\ bullets = <<>>
    /\ cooldown = 0
    /\ enemy_move_interval = 0
    /\ tick = 0
    /\ random_picks = 0
    /\ interval_args = <<>>
    /\ AntIdle

NextWide ==
    \/ Main
    \/ Fetch
    \/ Setup
    \/ Tick
    \/ Finish

SpecWide ==
    InitWide /\ [][NextWide]_vars

-----------------------------------------------------------------------------
(* Either script is run: main of the shooter or main of the automaton.     *)

InitEngines ==
    Init \/ InitAnt

NextEngines ==
    \/ Main
    \/ Fetch
    \/ Setup
    \/ Tick
    \/ Finish
    \/ AntMain
    \/ AntFetch
    \/ AntStart
    \/ AntStep
    \/ AntFinish

SpecEngines ==
    InitEngines /\ [][NextEngines]_vars

-----------------------------------------------------------------------------
(* compute_enemy_move_interval as a function of any positive arguments.    *)

IntervalArgs ==
    [total_hp : 1 .. IntervalMaxHp,
     width : 1 .. IntervalMaxWidth,
     max_descents : 1 .. IntervalMaxDescents]

InitInterval ==
    /\ AntIdle
    /\ pc = "compute_enemy_move_interval"
    /\ interval_args \in IntervalArgs
    /\ contribution_grid = EmptyDict
    /\ max_ticks = 0
    /\ render_every = 0
    /\ final_hold_frames = 0
    /\ frames = 0
    /\ enemies = EmptyDict
    /\ formation_x = 0
    /\ formation_y = 0
    /\ enemy_direction = 0
    /\ ship_x = 0
    /\ current_target_x = 0
    /\ bullets = <<>>
    /\ cooldown = 0
    /\ enemy_move_interval = 0
    /\ tick = 0
    /\ random_picks = 0

\* one call of compute_enemy_move_interval (lines 183-186)
CallInterval ==
    /\ pc = "compute_enemy_move_interval"
    /\ pc' = "returned"
    /\ enemy_move_interval' =
           compute_enemy_move_interval(interval_args.total_hp, interval_args.width,
                                       interval_args.max_descents)
    /\ UNCHANGED <<contribution_grid, max_ticks, render_every, final_hold_frames,
                   frames, enemies, formation_x, formation_y, enemy_direction,
                   ship_x, current_target_x, bullets, cooldown, tick,
                   random_picks, interval_args>>
    /\ UNCHANGED ant_vars

NextInterval ==
    CallInterval

SpecInterval ==
    InitInterval /\ [][NextInterval]_vars

-----------------------------------------------------------------------------
(* step_ant as a function: any grid, any cell, any heading.                *)

\* grids of StepAntMaxSide rows and columns at most, built as AntGrids are
StepAntGrids ==
    {[c \in (0 .. w - 1) \X (0 .. h - 1) |-> (b + s * (c[1] + c[2])) % PaletteSize] :
        w \in 1 .. StepAntMaxSide, h \in 1 .. StepAntMaxSide,
        b \in 0 .. MaxLevel, s \in {0, 1}}

InitStepAnt ==
    /\ ShooterIdle
    /\ ant_pc = "step_ant"
    /\ current \in StepAntGrids
    /\ ant_x \in 0 .. StepAntMaxSide - 1
    /\ ant_y \in 0 .. StepAntMaxSide - 1
    /\ <<ant_x, ant_y>> \in DOMAIN current
    /\ direction \in 0 .. 3
    /\ iterations = StepAntCalls
    /\ steps = 0
    /\ ant_frames = 0

\* one call of step_ant (lines 93-121) on the result of the call before
CallStepAnt ==
    /\ ant_pc = "step_ant"
    /\ steps < iterations
    /\ LET r == step_ant(current, ant_x, ant_y, direction)
       IN  /\ current' = r.grid
           /\ ant_x' = r.ant_x
           /\ ant_y' = r.ant_y
           /\ direction' = r.direction
    /\ steps' = steps + 1
    /\ UNCHANGED <<ant_pc, iterations, ant_frames>>
    /\ UNCHANGED shooter_vars

NextStepAnt ==
    CallStepAnt

SpecStepAnt ==
    InitStepAnt /\ [][NextStepAnt]_vars

-----------------------------------------------------------------------------
(* Properties of the shooter.                                              *)

Age(b) ==
    tick - b.born + 1

InLoop ==
    pc = "loop" /\ tick' = tick + 1

\* C1: every entry of the enemy formation mapping has hit points in 1..4 in
\* every reachable state; an enemy hit down to 0 is removed by the tick that
\* hit it, so no entry is ever kept at 0 or below.
EnemyHitPointsInRange ==
    \A c \in DOMAIN enemies : enemies[c] \in 1 .. MaxLevel

\* a bullet has removed one enemy and has wounded another that is still live
EnemyRemovedAndEnemyWounded ==
    /\ pc = "loop"
    /\ \E c \in DOMAIN build_enemies(contribution_grid) : c \notin DOMAIN enemies
    /\ \E c \in DOMAIN enemies : enemies[c] < contribution_grid[c]

\* C2: at a formation move event (a tick that is a multiple of the move
\* interval and ends with a non-empty formation) the direction reverses iff
\* one more cell in the current direction would put a live enemy's absolute
\* column outside 0..width-1; a reversal comes with exactly one increment of
\* the anchor row and no change of the anchor column; any other move changes
\* the anchor column by the direction and leaves the row and the direction.
FormationMoveRule ==
    [][(InLoop /\ tick' % enemy_move_interval = 0 /\ DOMAIN enemies' # {})
        => LET out == \E c \in DOMAIN enemies' :
                          formation_x + c[1] + enemy_direction \notin 0 .. width - 1
           IN  /\ (enemy_direction' = -enemy_direction) <=> out
               /\ out => /\ formation_y' = formation_y + 1
                         /\ formation_x' = formation_x
               /\ ~out => /\ formation_x' = formation_x + enemy_direction
                          /\ formation_y' = formation_y
                          /\ enemy_direction' = enemy_direction]_vars

\* the formation has bounced off the right wall and then off the left wall
FormationReversedTwice ==
    /\ pc = "loop"
    /\ enemy_direction = 1
    /\ formation_y = InitialFormationY + 2
    /\ DOMAIN enemies # {}

\* C3 as stated: a bullet is removed within ceil(startY / bullet_speed)
\* ticks of being fired (startY = ship_y - 1, the firing tick being the
\* first), so no bullet is live at the end of that many ticks.
BulletRemovedWithinCeilStartY ==
    \A i \in 1 .. Len(bullets) :
        Age(bullets[i]) < CeilDiv(ship_y - 1, bullet_speed)

\* C3 as amended: a bullet is removed within ceil((startY + 1) / bullet_speed)
\* ticks of being fired: row 0 is still inside the field, a bullet leaves it
\* only at y < 0.
BulletRemovedWithinCeilStartYPlusOne ==
    \A i \in 1 .. Len(bullets) :
        Age(bullets[i]) < CeilDiv(ship_y, bullet_speed)

\* a bullet that missed is live in row 0 after ceil(startY / bullet_speed) ticks
BulletLiveInTopRow ==
    \E i \in 1 .. Len(bullets) :
        /\ bullets[i].y = 0
        /\ Age(bullets[i]) = CeilDiv(ship_y - 1, bullet_speed)

\* C4: a bullet live at the end of two consecutive ticks is, at the later
\* one, exactly bullet_speed rows higher (its y strictly smaller) and in the
\* same column.
BulletMovesStraightUp ==
    [][InLoop =>
        \A i \in 1 .. Len(bullets) : \A j \in 1 .. Len(bullets') :
            bullets[i].born = bullets'[j].born
                => /\ bullets'[j].y = bullets[i].y - bullet_speed
                   /\ bullets'[j].y < bullets[i].y
                   /\ bullets'[j].x = bullets[i].x]_vars

\* bullets of different ages are in flight while the ship is in another
\* column than the oldest of them
BulletSurvivedSeveralTicks ==
    /\ Len(bullets) >= 2
    /\ Age(bullets[1]) >= 3
    /\ bullets[1].x # ship_x

\* C5: in every tick the ship column changes by at most 1 and stays in
\* 0..width-1; when it differs from the tick's target column it gets one
\* column closer to it, and when it is on the target column it stays.
ShipMovesTowardsTarget ==
    [][InLoop =>
        /\ Abs(ship_x' - ship_x) <= 1
        /\ ship_x \in 0 .. width - 1
        /\ ship_x' \in 0 .. width - 1
        /\ Abs(ship_x' - current_target_x') <= Abs(ship_x - current_target_x')
        /\ ship_x # current_target_x'
               => Abs(ship_x' - current_target_x') = Abs(ship_x - current_target_x') - 1
        /\ ship_x = current_target_x' => ship_x' = ship_x]_vars

\* the ship has walked to the leftmost column
ShipAtLeftEdge ==
    /\ pc = "loop"
    /\ tick > 0
    /\ ship_x = 0

\* C6: in the loop and after it the tick counter never exceeds max_ticks;
\* every step of the loop is
\* either a tick, which adds exactly 1 to the counter and starts from a
\* non-empty formation, or the exit, which changes nothing; a tick always
\* finds a live enemy to aim at (max() of pick_target_column never fails), so
\* the loop ends after at most max_ticks ticks; at termination exactly one
\* outcome holds: the formation is empty, or tick = max_ticks with an enemy
\* left.
ShooterTerminates ==
    /\ [](pc \in {"loop", "done"} => tick <= max_ticks)
    /\ [][pc = "loop" =>
              \/ /\ pc' = "loop"
                 /\ tick' = tick + 1
                 /\ DOMAIN enemies # {}
              \/ /\ pc' = "done"
                 /\ UNCHANGED <<tick, enemies, ship_x, current_target_x, bullets,
                                cooldown, formation_x, formation_y, enemy_direction>>]_vars
    /\ [](pc = "loop" /\ loop_condition(enemies, tick, max_ticks)
              => \E c \in DOMAIN enemies : enemies[c] > 0)
    /\ [](pc = "done" => ((DOMAIN enemies = {})
                             # (tick = max_ticks /\ DOMAIN enemies # {})))

\* the run stopped early: the budget is used up and enemies are left
StoppedEarly ==
    /\ pc = "done"
    /\ tick = max_ticks
    /\ DOMAIN enemies # {}

\* the grid of the scenario: one enemy of 2 hit points at grid cell (3, 2)
ScenarioGrid ==
    [c \in Cells(4) |-> IF c = <<3, 2>> THEN 2 ELSE 0]

InScenario ==
    contribution_grid = ScenarioGrid /\ pc \in {"loop", "done"}

\* C7 as stated: with a single enemy at relative (3, 2) with hp 2, the ship
\* starts at column 0 and is at column 3 after 3 ticks; two hits remove the
\* enemy and the run ends cleared.
ScenarioShipStartsAtColumn0 ==
    InScenario =>
        /\ tick = 0 => ship_x = 0
        /\ tick = 3 => ship_x = 3
        /\ (pc = "done" /\ max_ticks = MaxTicks) => DOMAIN enemies = {}

\* C7 as amended: in that grid the ship starts at column width \div 2 = 3,
\* the enemy's absolute column is 4, the ship is under it after 1 tick and
\* fires in every tick from the first on; the two hits land in ticks 15 and
\* 16, and with a budget of at least 16 ticks the run ends after tick 16,
\* cleared.
ScenarioShipStartsMidField ==
    InScenario =>
        /\ tick = 0 => ship_x = 3
        /\ tick >= 1 => ship_x = 4 /\ ship_x = formation_x + 3
        /\ tick \in 1 .. 14 => /\ Len(bullets) = tick
                               /\ bullets[tick] = [x |-> 4, y |-> ship_y - 1 - bullet_speed,
                                                   born |-> tick]
        /\ tick < 15 => enemies = build_enemies(ScenarioGrid)
        /\ tick = 15 => enemies = [c \in {<<3, 2>>} |-> 1]
        /\ tick >= 16 => DOMAIN enemies = {}
        /\ tick <= 16
        /\ (pc = "done" /\ max_ticks >= 16) => tick = 16 /\ DOMAIN enemies = {}

\* the scenario's run has ended, cleared
ScenarioCleared ==
    /\ InScenario
    /\ pc = "done"
    /\ tick = 16
    /\ DOMAIN enemies = {}

\* C8: in a tick that starts in chaos mode (more live enemies than
\* ChaosThreshold) the target column changes only if the tick's number is a
\* multiple of 8 or the ship was on the previous target column.
ChaosTargetOnlyReevaluated ==
    [][(InLoop /\ Cardinality(DOMAIN enemies) > ChaosThreshold
               /\ current_target_x' # current_target_x)
        => (tick' % ChaosReevalTicks = 0 \/ ship_x = current_target_x)]_vars

\* chaos mode, third tick: the ship is three columns into a six-column walk
\* to a randomly chosen column, which ticks 2 and 3 left unchanged
ChaosWalkToRandomColumn ==
    /\ pc = "loop"
    /\ Cardinality(DOMAIN enemies) > ChaosThreshold
    /\ tick = 3
    /\ ship_x = initial_ship_x(width) - 3
    /\ current_target_x = initial_ship_x(width) - 6

\* C16: in a tick every bullet in flight (the one fired in the tick included)
\* advances one row at a time for at most bullet_speed sub-steps and stops at
\* the first sub-step whose cell holds a live enemy: that enemy loses exactly
\* one hit point (and is removed at 0) and the bullet is destroyed in that
\* tick whether or not the enemy dies; a bullet that meets no enemy advances
\* bullet_speed rows, or is destroyed on leaving the top; no cell a surviving
\* bullet went through held a live enemy, no enemy other than the first one
\* met by a bullet changes, and the hit points lost in a tick are as many as
\* the bullets stopped by an enemy, so that a bullet takes at most one hit
\* point in its lifetime.
BulletStopsAtFirstEnemy ==
    [][InLoop
          => LET fire == /\ cooldown <= 0
                         /\ \E c \in DOMAIN enemies :
                               /\ formation_x + c[1] = ship_x'
                               /\ formation_y + c[2] < ship_y
                 flying == {bullets[i] : i \in 1 .. Len(bullets)}
                           \cup (IF fire
                                 THEN {[x |-> ship_x', y |-> ship_y - 1, born |-> tick']}
                                 ELSE {})
                 cell(b, k) == <<b.x - formation_x, b.y - k - formation_y>>
                 met(b) == {k \in 1 .. bullet_speed :
                               b.y - k >= 0 /\ cell(b, k) \in DOMAIN enemies}
                 first(b) == cell(b, CHOOSE k \in met(b) : \A j \in met(b) : k <= j)
                 after(b) == {bullets'[i] : i \in {j \in 1 .. Len(bullets') :
                                                     bullets'[j].born = b.born}}
                 stopped == {b \in flying : met(b) # {}}
             IN  /\ \A b \in flying :
                       IF met(b) = {}
                       THEN after(b) = (IF b.y - bullet_speed >= 0
                                        THEN {[b EXCEPT !.y = b.y - bullet_speed]}
                                        ELSE {})
                       ELSE /\ after(b) = {}
                            /\ IF enemies[first(b)] = 1
                               THEN first(b) \notin DOMAIN enemies'
                               ELSE /\ first(b) \in DOMAIN enemies'
                                    /\ enemies'[first(b)] = enemies[first(b)] - 1
                 /\ \A c \in DOMAIN enemies :
                       (\A b \in stopped : first(b) # c)
                          => c \in DOMAIN enemies' /\ enemies'[c] = enemies[c]
                 /\ DOMAIN enemies' \subseteq DOMAIN enemies
                 /\ Len(bullets') = Cardinality({b \in flying : met(b) = {}
                                                    /\ b.y - bullet_speed >= 0})
                 /\ SumValues(enemies) - SumValues(enemies') = Cardinality(stopped)]_vars

\* a bullet has been stopped by an enemy that is still live: the enemy is
\* wounded, the enemy behind it is untouched, the bullets of its column are
\* all below it and the next one is about to reach it
BulletStoppedByWoundedEnemy ==
    /\ pc = "loop"
    /\ \E c \in DOMAIN enemies :
          /\ enemies[c] < contribution_grid[c]
          /\ <<c[1], c[2] - 1>> \in DOMAIN enemies
          /\ enemies[<<c[1], c[2] - 1>>] = contribution_grid[<<c[1], c[2] - 1>>]
          /\ \A i \in 1 .. Len(bullets) :
                bullets[i].x = formation_x + c[1] => bullets[i].y > formation_y + c[2]
          /\ \E i \in 1 .. Len(bullets) :
                /\ bullets[i].x = formation_x + c[1]
                /\ bullets[i].y - bullet_speed <= formation_y + c[2]

\* C17: a tick creates at most one bullet, and creates one exactly when the
\* cooldown is <= 0 and some live enemy has its absolute column equal to the
\* ship's column after the tick's move and its absolute row above ship_y;
\* the bullet is appended at (ship_x, ship_y - 1), so that the bullet step of
\* the same tick leaves it last in the list, bullet_speed rows higher; a shot
\* sets the cooldown to fire_cooldown_ticks, and a tick that begins with a
\* positive cooldown creates no bullet and takes 1 off the cooldown, so no
\* bullet is created in the fire_cooldown_ticks ticks after a shot.
OneBulletWhenEnemyAhead ==
    [][InLoop
          => LET ahead == \E c \in DOMAIN enemies :
                             /\ enemies[c] > 0
                             /\ formation_x + c[1] = ship_x'
                             /\ formation_y + c[2] < ship_y
                 created == {i \in 1 .. Len(bullets') :
                                bullets'[i].y = ship_y - 1 - bullet_speed}
             IN  /\ Cardinality(created) <= 1
                 /\ Len(bullets') <= Len(bullets) + 1
                 /\ created # {} <=> (cooldown <= 0 /\ ahead)
                 /\ created # {}
                       => /\ created = {Len(bullets')}
                          /\ bullets'[Len(bullets')].x = ship_x'
                          /\ bullets'[Len(bullets')].born = tick'
                          /\ cooldown' = fire_cooldown_ticks
                 /\ cooldown > 0 => cooldown' = cooldown - 1
                 /\ (cooldown <= 0 /\ ~ahead) => cooldown' = cooldown]_vars

\* the ship has just fired after a tick or more without a shot: the newest
\* bullet is in the ship's column, the one before it more than one tick older
FiredAgainAfterPause ==
    /\ pc = "loop"
    /\ Len(bullets) >= 2
    /\ bullets[Len(bullets)].y = ship_y - 1 - bullet_speed
    /\ bullets[Len(bullets)].x = ship_x
    /\ bullets[Len(bullets) - 1].y < ship_y - 1 - 2 * bullet_speed

\* C18 as stated: for positive total_hp, width and max_descents the interval
\* is ceil((total_hp * 1.3 + width * 6) / (width * max_descents)) in exact
\* arithmetic, that is the least k with
\* k * 10 * width * max_descents >= 13 * total_hp + 60 * width, clamped to
\* 28..180.
IntervalIsExactCeiling ==
    pc = "returned"
       => LET p == 13 * interval_args.total_hp + 60 * interval_args.width
              q == 10 * interval_args.width * interval_args.max_descents
              k == IF p % q = 0 THEN p \div q ELSE p \div q + 1
          IN  /\ enemy_move_interval = (IF k < 28 THEN 28 ELSE IF k > 180 THEN 180 ELSE k)
              /\ enemy_move_interval \in 28 .. 180

\* C18: for positive total_hp, width and max_descents the interval is
\* ceil(e / (width * max_descents)) clamped to 28..180, where e is
\* total_hp * 1.3 + width * 6 with its fraction cut off (the integer e with
\* 10 * e <= 13 * total_hp + 60 * width < 10 * e + 10); the result is always
\* in 28..180.
IntervalIsCeilingOfTruncatedEstimate ==
    pc = "returned"
       => LET p == 13 * interval_args.total_hp + 60 * interval_args.width
              e == (p - (p % 10)) \div 10
              q == interval_args.width * interval_args.max_descents
              k == IF e % q = 0 THEN e \div q ELSE e \div q + 1
          IN  /\ enemy_move_interval = (IF k < 28 THEN 28 ELSE IF k > 180 THEN 180 ELSE k)
              /\ enemy_move_interval \in 28 .. 180

\* a call whose result differs from the exact ceiling: 21 * 1.3 + 6 = 33.3
\* is cut to 33, and 33 is returned where the exact ceiling is 34
IntervalOfTruncatedEstimate ==
    /\ pc = "returned"
    /\ interval_args = [total_hp |-> 21, width |-> 1, max_descents |-> 1]
    /\ enemy_move_interval = 33

\* C19: at the end of every tick, the bullets moved and the formation
\* possibly moved, no live bullet is in the absolute cell of a live enemy.
NoBulletInEnemyCell ==
    pc \in {"loop", "done"}
       => \A i \in 1 .. Len(bullets) :
             <<bullets[i].x - formation_x, bullets[i].y - formation_y>>
                \notin DOMAIN enemies

\* C20: in every state of the loop and after it, every live enemy's absolute
\* row formation_y + ey is less than ship_y - 1: the formation never comes
\* down to the row above the ship, to the ship's row or below it.
EnemiesStayAboveShip ==
    pc \in {"loop", "done"}
       => \A c \in DOMAIN enemies : formation_y + c[2] < ship_y - 1

\* C21: in every state of the loop and after it every live enemy's absolute
\* column formation_x + ex lies in 0..width-1, width being the grid width
\* plus 2 and the anchor starting at column 1; so the target column, always
\* a live enemy's column or the ship's first column, lies in 0..width-1, the
\* columns the ship can reach.
EnemyColumnsOnBoard ==
    pc \in {"loop", "done"}
       => /\ width = Cardinality({c[1] : c \in DOMAIN contribution_grid}) + 2
          /\ \A c \in DOMAIN enemies : formation_x + c[1] \in 0 .. width - 1
          /\ current_target_x \in 0 .. width - 1
          /\ ship_x \in 0 .. width - 1
          /\ tick = 0 => formation_x = 1

\* the formation has come to the right wall: a live enemy stands in the last
\* column of the board and the ship's target is that column
EnemyInLastColumn ==
    /\ pc = "loop"
    /\ \E c \in DOMAIN enemies : formation_x + c[1] = width - 1
    /\ current_target_x = width - 1

\* C22: on every grid generate_gif accepts max_descents_before_fail is 24
\* and the computed enemy_move_interval is 28, whatever the total hit points
\* and the width; so in the loop the formation anchor changes only in ticks
\* that are multiples of 28, by one move event (one column sideways, or one
\* row down), and it does change in such a tick if enemies are left.
AnchorMovesEvery28Ticks ==
    /\ [](pc \in {"loop", "done"}
             => /\ max_descents_before_fail = 24
                /\ enemy_move_interval = 28)
    /\ [][pc = "loop"
             => LET moved == <<formation_x', formation_y'>> # <<formation_x, formation_y>>
                    sideways == /\ formation_x' \in {formation_x - 1, formation_x + 1}
                                /\ formation_y' = formation_y
                    down == /\ formation_x' = formation_x
                            /\ formation_y' = formation_y + 1
                IN  /\ moved => (tick' = tick + 1 /\ tick' % 28 = 0)
                    /\ moved => (sideways \/ down)
                    /\ (tick' = tick + 1 /\ tick' % 28 = 0 /\ DOMAIN enemies' # {})
                          => moved]_vars

\* the second move event, in tick 56, has taken the formation one row down
AnchorDescendedInTick56 ==
    /\ pc = "loop"
    /\ tick = 56
    /\ formation_y = InitialFormationY + 1
    /\ DOMAIN enemies # {}

\* C15: in a tick outside chaos mode (at most 220 enemies when the tick
\* begins) the target column of the tick's ship move is the absolute column
\* of a live enemy to which no live enemy is preferred, an enemy being
\* preferred for a greater absolute row, then for a smaller horizontal
\* distance to the ship's column before the move, then for more hit points.
TargetIsLowestNearestStrongest ==
    [][(InLoop /\ Cardinality(DOMAIN enemies) <= 220)
          => LET row(c) == formation_y + c[2]
                 dist(c) == Abs(formation_x + c[1] - ship_x)
                 preferred(d, c) ==
                     \/ row(d) > row(c)
                     \/ row(d) = row(c) /\ dist(d) < dist(c)
                     \/ row(d) = row(c) /\ dist(d) = dist(c) /\ enemies[d] > enemies[c]
             IN  \E c \in DOMAIN enemies :
                    /\ enemies[c] > 0
                    /\ current_target_x' = formation_x + c[1]
                    /\ \A d \in DOMAIN enemies : ~preferred(d, c)]_vars

\* the first tick of a grid of three columns: two enemies in one row, one
\* column to the left and to the right of the ship, and the ship has moved
\* under the right one, which has more hit points
TargetChosenByHitPoints ==
    /\ pc = "loop"
    /\ tick = 1
    /\ width = 5
    /\ \E y \in 0 .. GridHeight - 1 :
          /\ DOMAIN enemies = {<<0, y>>, <<2, y>>}
          /\ enemies[<<0, y>>] < enemies[<<2, y>>]
    /\ current_target_x = formation_x + 2
    /\ ship_x = current_target_x

-----------------------------------------------------------------------------
(* Properties of the automaton.                                            *)

\* C10: once placed, the ant stays inside the grid (0 <= x <= width - 1,
\* 0 <= y <= height - 1) and its heading stays in 0..3; a step moves it one
\* cell in the new heading, and a move off an edge re-enters at the opposite
\* edge.
AntStaysOnTorus ==
    /\ [](ant_pc \in {"loop", "done"}
             => /\ ant_x \in 0 .. GridWidth(current) - 1
                /\ ant_y \in 0 .. GridHeight - 1
                /\ direction \in 0 .. 3)
    /\ [][(ant_pc = "loop" /\ steps' = steps + 1)
             => LET w == GridWidth(current)
                    h == GridHeight
                IN  /\ direction' = 0
                        => /\ ant_x' = ant_x
                           /\ ant_y' = (IF ant_y = 0 THEN h - 1 ELSE ant_y - 1)
                    /\ direction' = 1
                        => /\ ant_y' = ant_y
                           /\ ant_x' = (IF ant_x = w - 1 THEN 0 ELSE ant_x + 1)
                    /\ direction' = 2
                        => /\ ant_x' = ant_x
                           /\ ant_y' = (IF ant_y = h - 1 THEN 0 ELSE ant_y + 1)
                    /\ direction' = 3
                        => /\ ant_y' = ant_y
                           /\ ant_x' = (IF ant_x = 0 THEN w - 1 ELSE ant_x - 1)]_vars

\* the ant has just left the top row upwards and re-entered in the bottom
\* row of a grid wider than one column
AntWrappedOverTopEdge ==
    /\ ant_pc = "loop"
    /\ steps >= 1
    /\ direction = 0
    /\ ant_y = GridHeight - 1
    /\ GridWidth(current) > 1

\* C11: every cell of the automaton's grid holds a level in 0..4 after any
\* number of ticks; a tick changes exactly one cell, the one the ant stood on
\* when the tick began, from its level L to (L + 1) mod 5, and leaves every
\* other cell as it was.
AntTickCyclesOneCell ==
    /\ [](\A c \in DOMAIN current : current[c] \in 0 .. 4)
    /\ [][(ant_pc = "loop" /\ steps' = steps + 1)
             => LET here == <<ant_x, ant_y>>
                IN  /\ DOMAIN current' = DOMAIN current
                    /\ current'[here] = (IF current[here] = 4 THEN 0
                                         ELSE current[here] + 1)
                    /\ \A c \in DOMAIN current \ {here} : current'[c] = current[c]]_vars

\* the first tick on a grid of level 4 throughout has cycled one cell to 0
AntCycledCellToZero ==
    /\ ant_pc = "loop"
    /\ steps = 1
    /\ \E c \in DOMAIN current :
          /\ current[c] = 0
          /\ \A d \in DOMAIN current \ {c} : current[d] = 4
    /\ Cardinality(DOMAIN current) > 1

\* C12: step_ant turns the ant clockwise (up, right, down, left, up) on a
\* level of 0, 2 or 4 and counter-clockwise on a level of 1 or 3, and then
\* moves it exactly one cell in the new heading, wrapping around the edges;
\* on a 3x3 grid of level 0 throughout with the ant at (0,0) heading right,
\* one tick leaves cell (0,0) at 1, the heading down and the ant at (0,1).
AntTurnsByLevelThenMoves ==
    [][(ant_pc = "step_ant" /\ steps' = steps + 1)
          => LET level == current[<<ant_x, ant_y>>]
                 w == Cardinality({c[1] : c \in DOMAIN current})
                 h == Cardinality({c[2] : c \in DOMAIN current})
                 clockwise == [d \in 0 .. 3 |-> IF d = 3 THEN 0 ELSE d + 1]
                 counter == [d \in 0 .. 3 |-> IF d = 0 THEN 3 ELSE d - 1]
                 ahead == [d \in 0 .. 3 |->
                              IF d = 0 THEN <<ant_x, IF ant_y = 0 THEN h - 1 ELSE ant_y - 1>>
                              ELSE IF d = 1 THEN <<IF ant_x = w - 1 THEN 0 ELSE ant_x + 1, ant_y>>
                              ELSE IF d = 2 THEN <<ant_x, IF ant_y = h - 1 THEN 0 ELSE ant_y + 1>>
                              ELSE <<IF ant_x = 0 THEN w - 1 ELSE ant_x - 1, ant_y>>]
             IN  /\ level \in {0, 2, 4} => direction' = clockwise[direction]
                 /\ level \in {1, 3} => direction' = counter[direction]
                 /\ <<ant_x', ant_y'>> = ahead[direction']
                 /\ (/\ current = [c \in (0 .. 2) \X (0 .. 2) |-> 0]
                     /\ <<ant_x, ant_y>> = <<0, 0>>
                     /\ direction = 1)
                        => /\ current'[<<0, 0>>] = 1
                           /\ direction' = 2
                           /\ <<ant_x', ant_y'>> = <<0, 1>>]_vars

\* the tick of the 3x3 scenario has been taken
AntScenarioStepped ==
    /\ ant_pc = "step_ant"
    /\ steps = 1
    /\ current = [c \in (0 .. 2) \X (0 .. 2) |-> IF c = <<0, 0>> THEN 1 ELSE 0]
    /\ direction = 2
    /\ <<ant_x, ant_y>> = <<0, 1>>

-----------------------------------------------------------------------------
(* Properties of the two scripts.                                          *)

NoPositiveCell(g) ==
    DOMAIN g # {} /\ \A c \in DOMAIN g : g[c] = 0

\* C13 as stated: in each of the two engines a fetched grid without a
\* positive cell ends in an error, with no tick run and no frame produced.
EmptyGridFailsBothEngines ==
    /\ (pc \in {"loop", "done", "error"} /\ NoPositiveCell(contribution_grid))
          => pc = "error" /\ tick = 0 /\ frames = 0
    /\ (ant_pc \in {"loop", "done", "error"} /\ steps = 0 /\ NoPositiveCell(current))
          => ant_pc = "error" /\ ant_frames = 0

\* C13: in the shooter a fetched grid without a positive cell ends in an
\* error before any tick is run and before any frame is produced, and the
\* shooter fails so on no other grid; the automaton never fails on a grid:
\* it renders the first frame of a grid without a positive cell too, steps
\* the ant through its whole budget and ends with one frame per tick more.
EmptyGridFailsShooterOnly ==
    /\ []((pc \in {"loop", "done", "error"} /\ NoPositiveCell(contribution_grid))
             => /\ pc = "error"
                /\ tick = 0
                /\ frames = 0
                /\ enemies = EmptyDict)
    /\ [](pc = "error" => NoPositiveCell(contribution_grid))
    /\ [](ant_pc # "error")
    /\ []((ant_pc \in {"loop", "done"} /\ steps = 0 /\ NoPositiveCell(current))
             => ant_frames = 1)
    /\ [](ant_pc = "done" => steps = iterations /\ ant_frames = iterations + 1)
    /\ [][ant_pc = "loop" /\ steps < iterations => steps' = steps + 1]_vars

\* the shooter has failed on the grid of 7 columns without a positive cell
ShooterFailedOnEmptyGrid ==
    /\ pc = "error"
    /\ contribution_grid = EmptyGrid
    /\ frames = 0

\* C14 as stated: a tick budget, a frame cadence or a number of hold frames
\* that is not positive is rejected before anything of the simulation is
\* created.
NonPositiveArgsRejected ==
    /\ (pc # "idle" /\ (max_ticks <= 0 \/ render_every <= 0 \/ final_hold_frames <= 0))
          => /\ pc \in {"main", "rejected"}
             /\ contribution_grid = EmptyDict
             /\ enemies = EmptyDict
             /\ tick = 0
             /\ frames = 0
    /\ (ant_pc # "idle" /\ iterations <= 0)
          => /\ ant_pc \in {"main", "rejected"}
             /\ current = EmptyDict
             /\ steps = 0
             /\ ant_frames = 0

\* C14: the shooter rejects a tick budget below 1, a frame cadence below 1
\* and a negative number of hold frames, and nothing else (0 hold frames are
\* accepted); the automaton rejects a tick budget below 1; a rejected run has
\* fetched no grid, run no tick and produced no frame, and stays rejected.
BadArgsRejectedBeforeSimulation ==
    /\ []((pc # "idle" /\ (max_ticks <= 0 \/ render_every <= 0 \/ final_hold_frames < 0))
             => /\ pc \in {"main", "rejected"}
                /\ contribution_grid = EmptyDict
                /\ enemies = EmptyDict
                /\ bullets = <<>>
                /\ tick = 0
                /\ frames = 0)
    /\ []((ant_pc # "idle" /\ iterations <= 0)
             => /\ ant_pc \in {"main", "rejected"}
                /\ current = EmptyDict
                /\ steps = 0
                /\ ant_frames = 0)
    /\ [][pc = "main"
             => (pc' = "rejected")
                   <=> (max_ticks <= 0 \/ render_every <= 0 \/ final_hold_frames < 0)]_vars
    /\ [][ant_pc = "main" => ((ant_pc' = "rejected") <=> iterations <= 0)]_vars
    /\ [][pc = "rejected" => pc' = "rejected"]_vars
    /\ [][ant_pc = "rejected" => ant_pc' = "rejected"]_vars

\* a run of the shooter was rejected for its negative number of hold frames
\* alone
RejectedForNegativeHoldFrames ==
    /\ pc = "rejected"
    /\ max_ticks >= 1
    /\ render_every >= 1
    /\ final_hold_frames < 0

====
